---- MODULE Spec2Model ----
(***************************************************************************)
(* A model of script-src-generator: the scriptsrc package (ScriptSrc, its  *)
(* AddInline / AddSrc / AddFromHTML / String methods and the file entry    *)
(* points) and the file loop of the command line tool.                     *)
(*                                                                         *)
(* Strings are sequences of one-character strings, so that URL parsing,    *)
(* prefix tests and formatting are computed character by character.        *)
(***************************************************************************)
EXTENDS Integers, Sequences, FiniteSets, TLC

VARIABLES
    scriptSrc,  \* the ScriptSrc value the caller holds
    pc,         \* "idle": the caller is between calls; "returned": a call has just returned
    last        \* the call that has just returned: its arguments, its results, the state before it

vars == <<scriptSrc, pc, last>>

-----------------------------------------------------------------------------
(* Bounds of the model.                                                    *)

\* the longest child list of a generated document root
MaxKids == 2
\* the longest path list handed to ScriptSrcFromHTMLFiles and to main
MaxPaths == 2
\* the longest Others list a caller supplies
MaxOthers == 1
\* the longest attribute list of the element of a generated tree
MaxAttrs == 2
\* the most entries a ScriptSrc holds when a call begins that is taken step by step
MaxHeld == 1

-----------------------------------------------------------------------------
(* Strings.                                                                *)

LowerCase == <<"a","b","c","d","e","f","g","h","i","j","k","l","m",
               "n","o","p","q","r","s","t","u","v","w","x","y","z">>
UpperCase == <<"A","B","C","D","E","F","G","H","I","J","K","L","M",
               "N","O","P","Q","R","S","T","U","V","W","X","Y","Z">>
Digits == {"0","1","2","3","4","5","6","7","8","9"}

Range(s) == {s[i] : i \in 1..Len(s)}

IsLetter(c) == c \in Range(LowerCase) \/ c \in Range(UpperCase)

\* strings.ToLower on one character
ToLowerChar(c) ==
    IF c \in Range(UpperCase)
    THEN LowerCase[CHOOSE i \in 1..26 : UpperCase[i] = c]
    ELSE c

\* strings.ToLower
ToLower(s) == [i \in 1..Len(s) |-> ToLowerChar(s[i])]

\* strings.HasPrefix
HasPrefix(s, p) == Len(s) >= Len(p) /\ SubSeq(s, 1, Len(p)) = p

\* strings.HasSuffix
HasSuffix(s, p) == Len(s) >= Len(p) /\ SubSeq(s, Len(s) - Len(p) + 1, Len(s)) = p

\* strings.Index for a one-character separator; 0 when absent (Go: -1)
Index(s, c) ==
    IF \E i \in 1..Len(s) : s[i] = c
    THEN CHOOSE i \in 1..Len(s) : s[i] = c /\ \A j \in 1..(i-1) : s[j] # c
    ELSE 0

\* strings.LastIndex for a one-character separator; 0 when absent
LastIndex(s, c) ==
    IF \E i \in 1..Len(s) : s[i] = c
    THEN CHOOSE i \in 1..Len(s) : s[i] = c /\ \A j \in (i+1)..Len(s) : s[j] # c
    ELSE 0

\* strings.Count for a one-character separator
Count(s, c) == Cardinality({i \in 1..Len(s) : s[i] = c})

\* strings.Cut for a one-character separator: <<before, after>>
Cut(s, c) ==
    LET i == Index(s, c)
    IN  IF i = 0 THEN <<s, <<>>>>
        ELSE <<SubSeq(s, 1, i-1), SubSeq(s, i+1, Len(s))>>

\* slices.Contains
Contains(list, x) == \E i \in 1..Len(list) : list[i] = x

\* strings.Join with a one-character separator
RECURSIVE Join(_, _)
Join(list, sep) ==
    IF Len(list) = 0 THEN <<>>
    ELSE IF Len(list) = 1 THEN list[1]
    ELSE list[1] \o <<sep>> \o Join(Tail(list), sep)

\* no error (Go: nil)
Nil == <<>>

-----------------------------------------------------------------------------
(* net/url: the part of url.Parse that AddSrc depends on.  The references  *)
(* of the model hold no '%' escape and no '[' (IPv6 literal), so those     *)
(* branches of the library are not modelled.                               *)

\* the bytes stringContainsCTLByte rejects (b < ' ' or b = 0x7f) that occur in the model
CTL == {"\t", "\n"}

stringContainsCTLByte(s) == \E i \in 1..Len(s) : s[i] \in CTL

IsSchemeMark(c) == c \in Digits \cup {"+", "-", "."}

\* getScheme: the scan stops at the first byte that is not a letter and is
\* not a digit/+/-/. past the first position.
getScheme(rawURL) ==
    LET stops == {i \in 1..Len(rawURL) :
                     ~IsLetter(rawURL[i]) /\ ~(IsSchemeMark(rawURL[i]) /\ i > 1)}
    IN  IF stops = {}
        THEN [err |-> Nil, scheme |-> <<>>, rest |-> rawURL]
        ELSE LET k == CHOOSE i \in stops : \A j \in stops : i <= j
             IN  IF rawURL[k] = ":"
                 THEN IF k = 1
                      THEN [err |-> <<"missing protocol scheme">>, scheme |-> <<>>, rest |-> <<>>]
                      ELSE [err |-> Nil, scheme |-> SubSeq(rawURL, 1, k-1),
                            rest |-> SubSeq(rawURL, k+1, Len(rawURL))]
                 ELSE [err |-> Nil, scheme |-> <<>>, rest |-> rawURL]

\* validOptionalPort: "" or ":" followed by digits only
validOptionalPort(port) ==
    \/ port = <<>>
    \/ /\ port[1] = ":"
       /\ \A i \in 2..Len(port) : port[i] \in Digits

\* shouldEscape(c, encodeHost): the bytes a host may not hold unescaped
shouldEscapeHost(c) ==
    ~ \/ IsLetter(c)
      \/ c \in Digits
      \/ c \in {"!", "$", "&", "'", "(", ")", "*", "+", ",", ";", "=", ":", "[", "]", "<", ">", "\""}
      \/ c \in {"-", "_", ".", "~"}

\* parseHost, without the IPv6 branch
parseHost(host) ==
    LET i == LastIndex(host, ":")
    IN  IF i # 0 /\ ~validOptionalPort(SubSeq(host, i, Len(host)))
        THEN [err |-> <<"invalid port ">> \o SubSeq(host, i, Len(host)) \o <<" after host">>,
              host |-> <<>>]
        ELSE IF \E j \in 1..Len(host) : shouldEscapeHost(host[j])
        THEN [err |-> <<"invalid character in host name">>, host |-> <<>>]
        ELSE [err |-> Nil, host |-> host]

\* validUserinfo
validUserinfo(s) ==
    \A i \in 1..Len(s) :
        \/ IsLetter(s[i])
        \/ s[i] \in Digits
        \/ s[i] \in {"-", ".", "_", ":", "~", "!", "$", "&", "'", "(", ")", "*", "+", ",", ";", "=", "%", "@"}

\* parseAuthority, once the host after the last @ (at i, 0 when none) is parsed
parseUserinfo(authority, i, h) ==
    IF h.err # Nil THEN [err |-> h.err, user |-> <<>>, host |-> <<>>]
    ELSE IF i = 0 THEN [err |-> Nil, user |-> <<>>, host |-> h.host]
    ELSE IF ~validUserinfo(SubSeq(authority, 1, i-1))
    THEN [err |-> <<"net/url: invalid userinfo">>, user |-> <<>>, host |-> <<>>]
    ELSE [err |-> Nil, user |-> SubSeq(authority, 1, i-1), host |-> h.host]

parseAuthorityAt(authority, i) ==
    parseUserinfo(authority, i,
                  parseHost(IF i = 0 THEN authority
                            ELSE SubSeq(authority, i+1, Len(authority))))

\* parseAuthority: [user@]host[:port]
parseAuthority(authority) == parseAuthorityAt(authority, LastIndex(authority, "@"))

\* a parsed url.URL (the fields the model keeps) with the error of the parse
MkURL(scheme, opaque, user, host, path, query) ==
    [err |-> Nil, Scheme |-> scheme, Opaque |-> opaque, User |-> user,
     Host |-> host, Path |-> path, RawQuery |-> query, Fragment |-> <<>>]

ParseFail(e) ==
    [err |-> e, Scheme |-> <<>>, Opaque |-> <<>>, User |-> <<>>,
     Host |-> <<>>, Path |-> <<>>, RawQuery |-> <<>>, Fragment |-> <<>>]

\* url.parse, from the authority on: pa is the parsed authority
parseAfterAuthority(scheme, pa, path, query) ==
    IF pa.err # Nil THEN ParseFail(pa.err)
    ELSE MkURL(scheme, <<>>, pa.user, pa.host, path, query)

\* the authority ends at the first "/" (at i, 0 when none) of what follows "//"
parseSplitAuthority(scheme, a0, i, query) ==
    parseAfterAuthority(scheme,
                        parseAuthority(IF i > 0 THEN SubSeq(a0, 1, i-1) ELSE a0),
                        IF i > 0 THEN SubSeq(a0, i, Len(a0)) ELSE <<>>,
                        query)

\* url.parse, once scheme and query are split off
parseRest(scheme, rest, query) ==
    IF ~HasPrefix(rest, <<"/">>) /\ scheme # <<>>
    THEN \* a rootless path after a scheme is opaque
         MkURL(scheme, rest, <<>>, <<>>, <<>>, query)
    ELSE IF ~HasPrefix(rest, <<"/">>) /\ Contains(Cut(rest, "/")[1], ":")
    THEN ParseFail(<<"first path segment in URL cannot contain colon">>)
    ELSE IF (scheme # <<>> \/ ~HasPrefix(rest, <<"/", "/", "/">>))
            /\ HasPrefix(rest, <<"/", "/">>)
    THEN parseSplitAuthority(scheme, SubSeq(rest, 3, Len(rest)),
                             Index(SubSeq(rest, 3, Len(rest)), "/"), query)
    ELSE MkURL(scheme, <<>>, <<>>, <<>>, rest, query)

\* url.parse, once the scheme is split off: a lone trailing "?" forces an empty query
parseQuery(scheme, rest) ==
    IF HasSuffix(rest, <<"?">>) /\ Count(rest, "?") = 1
    THEN parseRest(scheme, SubSeq(rest, 1, Len(rest) - 1), <<>>)
    ELSE parseRest(scheme, Cut(rest, "?")[1], Cut(rest, "?")[2])

parseScheme(gs) ==
    IF gs.err # Nil THEN ParseFail(gs.err)
    ELSE parseQuery(ToLower(gs.scheme), gs.rest)

\* url.parse(rawURL, viaRequest = false): rawURL has no fragment
parse(rawURL) ==
    IF stringContainsCTLByte(rawURL)
    THEN ParseFail(<<"net/url: invalid control character in URL">>)
    ELSE IF rawURL = <<"*">>
    THEN MkURL(<<>>, <<>>, <<>>, <<>>, <<"*">>, <<>>)
    ELSE parseScheme(getScheme(rawURL))

\* url.Parse, once the fragment is cut off: a failure is wrapped as
\* parse "<url>": <error>
ParseFragment(u, frag, url) ==
    IF url.err # Nil
    THEN ParseFail(<<"parse \"">> \o u \o <<"\": ">> \o url.err)
    ELSE [url EXCEPT !.Fragment = frag]

ParseCut(c) == ParseFragment(c[1], c[2], parse(c[1]))

\* url.Parse
Parse(rawURL) == ParseCut(Cut(rawURL, "#"))

-----------------------------------------------------------------------------
(* The references AddSrc is called with.                                   *)

R_rel == <<"f",".","j","s">>

R_https == <<"h","t","t","p","s",":","/","/","x","/","a">>

R_httpsPort == <<"h","t","t","p","s",":","/","/","x",":","8","/">>

R_http == <<"h","t","t","p",":","/","/","x","/","a">>

\* the src of the script element of index.html
R_turnstile ==
    <<"h","t","t","p","s",":","/","/","c","h","a","l","l","e","n","g","e","s",
    ".","c","l","o","u","d","f","l","a","r","e",".","c","o","m","/","t","u",
    "r","n","s","t","i","l","e","/","v","0","/","a","p","i",".","j","s">>

\* the references AddSrc is called with beside the walk
SrcStrings == {R_rel, R_https, R_httpsPort, R_http,
               <<"d","a","t","a",":","a">>, <<"f","\t">>}

\* references put together from their parts
RefSchemes == {<<>>, <<"h","t","t","p","s",":">>, <<"H","t","t","p","S",":">>,
               <<"h","t","t","p",":">>, <<"H","T","T","P",":">>,
               <<"d","a","t","a",":">>, <<":">>}

RefAuthorities == {<<>>, <<"/","/","x">>, <<"/","/","x",":","8">>,
                   <<"/","/","x",":","y">>, <<"/","/","x"," ">>}

RefPaths == {<<>>, <<"/","p">>, <<"p">>}

RefQueries == {<<>>, <<"?","/","q">>}

RefFragments == {<<>>, <<"#","f">>}

Refs == {s \o a \o p \o q \o f :
            s \in RefSchemes, a \in RefAuthorities, p \in RefPaths,
            q \in RefQueries, f \in RefFragments}

\* the references without a scheme part
RelativeRefs == {a \o p \o q \o f :
                    a \in RefAuthorities, p \in RefPaths,
                    q \in RefQueries, f \in RefFragments}

\* references of the formatting specification: a host may hold a quote
R_httpsQuote == <<"h","t","t","p","s",":","/","/","x","'","/">>

FormatSrcStrings == {R_rel, R_https, R_httpsQuote, R_httpsQuote \o <<"a">>}

\* every reference of the model
SrcInputs == Refs \cup RelativeRefs \cup SrcStrings \cup FormatSrcStrings \cup {R_turnstile}

\* url.Parse of each reference, computed once
Parsed == [rawURL \in SrcInputs |-> Parse(rawURL)]

-----------------------------------------------------------------------------
(* The scriptsrc package.                                                  *)

Sha512 == 0
Sha256 == 1
HashAlgorithm == {Sha512, Sha256}

\* the zero value of the struct with the given algorithm and Others
ScriptSrc(alg, others) ==
    [Self |-> FALSE, Hashes |-> <<>>, DefaultHashAlgorithm |-> alg,
     Hosts |-> <<>>, Others |-> others]

\* The base64 alphabet of base64.StdEncoding.
Base64Alphabet == UpperCase \o LowerCase
                  \o <<"0","1","2","3","4","5","6","7","8","9","+","/">>

\* The bytes inline content is made of in the model, in a fixed order.
ContentBytes == LowerCase \o <<" ", "'", "(", ")", ";", "\n">>

ByteCode(c) == CHOOSE i \in 1..Len(ContentBytes) : ContentBytes[i] = c

\* A stand-in for base64(sha512(content)) and base64(sha256(content)): the
\* digests themselves cannot be computed here, so each is an injective map
\* of the content to base64 characters with the "=" padding of the real
\* encodings (collision resistance is what the package relies on).
Sha512Base64(content) ==
    [i \in 1..Len(content) |-> Base64Alphabet[ByteCode(content[i])]] \o <<"=", "=">>

Sha256Base64(content) ==
    [i \in 1..Len(content) |-> Base64Alphabet[65 - ByteCode(content[i])]] \o <<"=">>

S_sha512 == <<"s","h","a","5","1","2","-">>
S_sha256 == <<"s","h","a","2","5","6","-">>

\* the hash token AddInline computes
InlineHash(alg, content) ==
    CASE alg = Sha512 -> S_sha512 \o Sha512Base64(content)
      [] alg = Sha256 -> S_sha256 \o Sha256Base64(content)

\* an AddInline that puts the new hash before the ones held
AddInlinePrepends(ss, content) ==
    LET hash == InlineHash(ss.DefaultHashAlgorithm, content)
    IN  IF ~Contains(ss.Hashes, hash)
        THEN [ss EXCEPT !.Hashes = <<hash>> \o @]
        ELSE ss

\* an AddInline that holds the hash of the last text only
AddInlineKeepsLast(ss, content) ==
    [ss EXCEPT !.Hashes = <<InlineHash(ss.DefaultHashAlgorithm, content)>>]

\* ScriptSrc.AddInline
AddInline(ss, content) ==
    LET hash == InlineHash(ss.DefaultHashAlgorithm, content)
    IN  IF ~Contains(ss.Hashes, hash)
        THEN [ss EXCEPT !.Hashes = Append(@, hash)]
        ELSE ss

S_http == <<"h","t","t","p">>
S_https == <<"h","t","t","p","s">>
S_httpsSlashes == <<"h","t","t","p","s",":","/","/">>

\* the switch of AddSrc with the http case lost: the reference is taken for an https one
AddSrcAcceptsHttp(ss, srcString, src) ==
    IF src.err # Nil
    THEN [ss |-> ss,
          err |-> <<"failed to parse script src ">> \o srcString \o <<": ">> \o src.err]
    ELSE IF src.Scheme = S_https \/ src.Scheme = S_http
    THEN [ss |-> IF ~Contains(ss.Hosts, S_httpsSlashes \o src.Host)
                 THEN [ss EXCEPT !.Hosts = Append(@, S_httpsSlashes \o src.Host)]
                 ELSE ss,
          err |-> Nil]
    ELSE IF src.Scheme = <<>>
    THEN [ss |-> [ss EXCEPT !.Self = TRUE], err |-> Nil]
    ELSE [ss |-> ss, err |-> <<"failed to understand script src ">> \o srcString]

\* the switch of AddSrc without the slices.Contains test
AddSrcNoContains(ss, srcString, src) ==
    IF src.err # Nil
    THEN [ss |-> ss,
          err |-> <<"failed to parse script src ">> \o srcString \o <<": ">> \o src.err]
    ELSE IF src.Scheme = S_http
    THEN [ss |-> ss, err |-> <<"insecure script src: ">> \o srcString]
    ELSE IF src.Scheme = S_https
    THEN [ss |-> [ss EXCEPT !.Hosts = Append(@, S_httpsSlashes \o src.Host)], err |-> Nil]
    ELSE IF src.Scheme = <<>>
    THEN [ss |-> [ss EXCEPT !.Self = TRUE], err |-> Nil]
    ELSE [ss |-> ss, err |-> <<"failed to understand script src ">> \o srcString]

\* the switch of AddSrc keeping the path in the host entry
AddSrcKeepsPath(ss, srcString, src) ==
    IF src.err # Nil
    THEN [ss |-> ss,
          err |-> <<"failed to parse script src ">> \o srcString \o <<": ">> \o src.err]
    ELSE IF src.Scheme = S_http
    THEN [ss |-> ss, err |-> <<"insecure script src: ">> \o srcString]
    ELSE IF src.Scheme = S_https
    THEN [ss |-> IF ~Contains(ss.Hosts, S_httpsSlashes \o src.Host \o src.Path)
                 THEN [ss EXCEPT !.Hosts = Append(@, S_httpsSlashes \o src.Host \o src.Path)]
                 ELSE ss,
          err |-> Nil]
    ELSE IF src.Scheme = <<>>
    THEN [ss |-> [ss EXCEPT !.Self = TRUE], err |-> Nil]
    ELSE [ss |-> ss, err |-> <<"failed to understand script src ">> \o srcString]

\* an AddSrc that takes a reference without scheme the way it takes https
AddSrcNoSchemeAsHTTPS(ss, srcString, src) ==
    IF src.err # Nil
    THEN [ss |-> ss,
          err |-> <<"failed to parse script src ">> \o srcString \o <<": ">> \o src.err]
    ELSE IF src.Scheme = S_http
    THEN [ss |-> ss, err |-> <<"insecure script src: ">> \o srcString]
    ELSE IF src.Scheme = S_https \/ src.Scheme = <<>>
    THEN [ss |-> IF ~Contains(ss.Hosts, S_httpsSlashes \o src.Host)
                 THEN [ss EXCEPT !.Hosts = Append(@, S_httpsSlashes \o src.Host)]
                 ELSE ss,
          err |-> Nil]
    ELSE [ss |-> ss, err |-> <<"failed to understand script src ">> \o srcString]

\* an AddSrc that goes on from the https case into the case without scheme
AddSrcHTTPSFallsThrough(ss, srcString, src) ==
    IF src.err # Nil
    THEN [ss |-> ss,
          err |-> <<"failed to parse script src ">> \o srcString \o <<": ">> \o src.err]
    ELSE IF src.Scheme = S_http
    THEN [ss |-> ss, err |-> <<"insecure script src: ">> \o srcString]
    ELSE IF src.Scheme = S_https
    THEN [ss |-> IF ~Contains(ss.Hosts, S_httpsSlashes \o src.Host)
                 THEN [ss EXCEPT !.Hosts = Append(@, S_httpsSlashes \o src.Host), !.Self = TRUE]
                 ELSE [ss EXCEPT !.Self = TRUE],
          err |-> Nil]
    ELSE IF src.Scheme = <<>>
    THEN [ss |-> [ss EXCEPT !.Self = TRUE], err |-> Nil]
    ELSE [ss |-> ss, err |-> <<"failed to understand script src ">> \o srcString]

\* ScriptSrc.AddSrc once srcString is parsed (src): the new value and the
\* error returned
AddSrcURL(ss, srcString, src) ==
    IF src.err # Nil
    THEN [ss |-> ss,
          err |-> <<"failed to parse script src ">> \o srcString \o <<": ">> \o src.err]
    ELSE IF src.Scheme = S_http
    THEN [ss |-> ss, err |-> <<"insecure script src: ">> \o srcString]
    ELSE IF src.Scheme = S_https
    THEN [ss |-> IF ~Contains(ss.Hosts, S_httpsSlashes \o src.Host)
                 THEN [ss EXCEPT !.Hosts = Append(@, S_httpsSlashes \o src.Host)]
                 ELSE ss,
          err |-> Nil]
    ELSE IF src.Scheme = <<>>
    THEN [ss |-> [ss EXCEPT !.Self = TRUE], err |-> Nil]
    ELSE [ss |-> ss, err |-> <<"failed to understand script src ">> \o srcString]

\* ScriptSrc.AddSrc
AddSrc(ss, srcString) == AddSrcURL(ss, srcString, Parsed[srcString])

S_self == <<"'","s","e","l","f","'">>

\* a String that puts the hosts before the hashes
StringHostsFirst(ss) ==
    Join((IF ss.Self THEN <<S_self>> ELSE <<>>)
         \o ss.Hosts
         \o [i \in 1..Len(ss.Hashes) |-> <<"'">> \o ss.Hashes[i] \o <<"'">>]
         \o ss.Others, " ")

\* a String that puts no quotes around the hashes
StringUnquotedHashes(ss) ==
    Join((IF ss.Self THEN <<S_self>> ELSE <<>>) \o ss.Hashes \o ss.Hosts \o ss.Others, " ")

\* ScriptSrc.String
String(ss) ==
    LET srcs == (IF ss.Self THEN <<S_self>> ELSE <<>>)
                \o [i \in 1..Len(ss.Hashes) |-> <<"'">> \o ss.Hashes[i] \o <<"'">>]
                \o ss.Hosts
                \o ss.Others
    IN  Join(srcs, " ")

-----------------------------------------------------------------------------
(* golang.org/x/net/html nodes, as the walk reads them: Type, Data, Attr   *)
(* and the child list (FirstChild is Kids[1], NextSibling the next entry). *)

Node(type, data, attr, kids) == [Type |-> type, Data |-> data, Attr |-> attr, Kids |-> kids]
Attribute(key, val) == [Key |-> key, Val |-> val]

\* the node at a path of child indices
RECURSIVE NodeAt(_, _)
NodeAt(n, at) == IF at = <<>> THEN n ELSE NodeAt(n.Kids[Head(at)], Tail(at))

S_script == <<"s","c","r","i","p","t">>
S_src == <<"s","r","c">>
S_on == <<"o","n">>

\* The state of one walk: the ScriptSrc being filled and the error returned,
\* with a record of the walk: the nodes AddFromHTML was called on (each named
\* by its path of child indices from the root), the AddInline and AddSrc
\* calls made and the node each was made for, and the node that returned the
\* error first.
Walk(ss) == [ss |-> ss, err |-> Nil, errAt |-> <<>>, visited |-> <<>>,
             inlined |-> <<>>, srcs |-> <<>>]

WalkFail(w, e, at) == [w EXCEPT !.err = e, !.errAt = at]

WalkAddInline(w, content, at) ==
    [w EXCEPT !.ss = AddInline(@, content),
              !.inlined = Append(@, [at |-> at, content |-> content])]

\* the call of AddSrc in the attribute loop has returned r: its error is not looked at
WalkSrcAdded(w, val, at, r) ==
    [w EXCEPT !.ss = r.ss,
              !.srcs = Append(@, [at |-> at, src |-> val, err |-> r.err])]

WalkAddSrc(w, val, at) == WalkSrcAdded(w, val, at, AddSrc(w.ss, val))

\* a loop over the attributes that takes every src and fails on none
RECURSIVE ScriptAttrsEverySrc(_, _, _, _, _)
ScriptAttrsEverySrc(w, attr, i, hasSrc, at) ==
    IF i > Len(attr) THEN [w |-> w, hasSrc |-> hasSrc]
    ELSE IF attr[i].Key = S_src
    THEN ScriptAttrsEverySrc(WalkAddSrc(w, attr[i].Val, at), attr, i + 1, TRUE, at)
    ELSE ScriptAttrsEverySrc(w, attr, i + 1, hasSrc, at)

\* the loop over the attributes of a script element, from attribute i on
RECURSIVE ScriptAttrs(_, _, _, _, _)
ScriptAttrs(w, attr, i, hasSrc, at) ==
    IF i > Len(attr) THEN [w |-> w, hasSrc |-> hasSrc]
    ELSE IF attr[i].Key = S_src
    THEN IF hasSrc
         THEN [w |-> WalkFail(w, <<"script tag had a second src attribute: ">> \o attr[i].Val, at),
               hasSrc |-> hasSrc]
         ELSE ScriptAttrs(WalkAddSrc(w, attr[i].Val, at), attr, i + 1, TRUE, at)
    ELSE ScriptAttrs(w, attr, i + 1, hasSrc, at)

\* the loop over the attributes of any other node, from attribute i on
\* an attribute loop that gives the value of every attribute to AddInline
RECURSIVE EventHandlersEveryAttribute(_, _, _, _)
EventHandlersEveryAttribute(w, attr, i, at) ==
    IF i > Len(attr) THEN w
    ELSE EventHandlersEveryAttribute(WalkAddInline(w, attr[i].Val, at), attr, i + 1, at)

RECURSIVE EventHandlers(_, _, _, _)
EventHandlers(w, attr, i, at) ==
    IF i > Len(attr) THEN w
    ELSE IF HasPrefix(attr[i].Key, S_on)
    THEN EventHandlers(WalkAddInline(w, attr[i].Val, at), attr, i + 1, at)
    ELSE EventHandlers(w, attr, i + 1, at)

E_noContent == <<"script tag had no src attribute and no content">>
E_notText == <<"script tag had a child that was not a text node">>
E_multiple == <<"script tag had multiple children">>

\* a script element without src whose first child is its text, whatever follows
InlineScriptFirstChild(w, n, at) ==
    IF Len(n.Kids) = 0 THEN WalkFail(w, E_noContent, at)
    ELSE IF n.Kids[1].Type # "TextNode" THEN WalkFail(w, E_notText, at)
    ELSE WalkAddInline(w, n.Kids[1].Data, at)

\* the content of a script element without src
InlineScript(w, n, at) ==
    IF Len(n.Kids) = 0 THEN WalkFail(w, E_noContent, at)
    ELSE IF n.Kids[1].Type # "TextNode" THEN WalkFail(w, E_notText, at)
    ELSE IF Len(n.Kids) > 1 \/ Len(n.Kids[1].Kids) > 0 THEN WalkFail(w, E_multiple, at)
    ELSE WalkAddInline(w, n.Kids[1].Data, at)

\* AddFromHTML is entered on the node at path at
Visit(w, at) == [w EXCEPT !.visited = Append(@, at)]

RECURSIVE WalkNode(_, _, _, _)
RECURSIVE WalkChildren(_, _, _, _, _)
RECURSIVE NextChild(_, _, _, _, _)
RECURSIVE WalkChildrenRightToLeft(_, _, _, _, _)
RECURSIVE NextChildRightToLeft(_, _, _, _, _)

\* a script element that also walks the children of an element with src
ScriptNodeDescends(sa, n, at, includeEventHandlers) ==
    IF sa.w.err # Nil THEN sa.w
    ELSE IF sa.hasSrc THEN WalkChildren(sa.w, n.Kids, 1, at, includeEventHandlers)
    ELSE InlineScript(sa.w, n, at)

\* a script element after its attribute loop has returned sa
ScriptNode(sa, n, at, includeEventHandlers) ==
    IF sa.w.err # Nil THEN sa.w
    ELSE IF sa.hasSrc THEN sa.w
    ELSE InlineScript(sa.w, n, at)

\* ScriptSrc.AddFromHTML on node n, which is at path at
WalkNode(w, n, at, includeEventHandlers) ==
    IF n.Type = "ElementNode" /\ n.Data = S_script
    THEN ScriptNode(ScriptAttrs(Visit(w, at), n.Attr, 1, FALSE, at), n, at,
                    includeEventHandlers)
    ELSE WalkChildren(IF includeEventHandlers
                      THEN EventHandlers(Visit(w, at), n.Attr, 1, at)
                      ELSE Visit(w, at),
                      n.Kids, 1, at, includeEventHandlers)

\* the loop over the children taken from the last child to the first
WalkChildrenRightToLeft(w, kids, i, at, includeEventHandlers) ==
    IF i > Len(kids) THEN w
    ELSE NextChildRightToLeft(
             WalkNode(w, kids[Len(kids) + 1 - i], Append(at, Len(kids) + 1 - i),
                      includeEventHandlers),
             kids, i, at, includeEventHandlers)

NextChildRightToLeft(c, kids, i, at, includeEventHandlers) ==
    IF c.err # Nil THEN c
    ELSE WalkChildrenRightToLeft(c, kids, i + 1, at, includeEventHandlers)

\* the loop over the children, from child i on
WalkChildren(w, kids, i, at, includeEventHandlers) ==
    IF i > Len(kids) THEN w
    ELSE NextChild(WalkNode(w, kids[i], Append(at, i), includeEventHandlers),
                   kids, i, at, includeEventHandlers)

\* a loop over the children that goes on after a child has failed
NextChildGoesOn(c, kids, i, at, includeEventHandlers) ==
    WalkChildren(c, kids, i + 1, at, includeEventHandlers)

\* child i has returned c: the first error ends the loop
NextChild(c, kids, i, at, includeEventHandlers) ==
    IF c.err # Nil THEN c
    ELSE WalkChildren(c, kids, i + 1, at, includeEventHandlers)

\* a walk that gives the ScriptSrc back as it was when it fails
RolledBack(ss, w) == IF w.err # Nil THEN [w EXCEPT !.ss = ss] ELSE w

AddFromHTMLRollsBack(ss, n, includeEventHandlers) ==
    RolledBack(ss, WalkNode(Walk(ss), n, <<>>, includeEventHandlers))

\* ScriptSrc.AddFromHTML, called on the root of a tree
AddFromHTML(ss, n, includeEventHandlers) == WalkNode(Walk(ss), n, <<>>, includeEventHandlers)

-----------------------------------------------------------------------------
(* The files the entry points read.  A path is a name; the file system     *)
(* decides what os.Open and html.Parse make of it.                         *)

C_a == <<"a">>
C_b == <<" ","b","\n">>
C_c == <<"c","(","'","a","'",")">>

K_id == <<"i","d">>
K_onclick == <<"o","n","c","l","i","c","k">>
K_onload == <<"o","n","l","o","a","d">>
K_o == <<"o">>

Element(data, attr, kids) == Node("ElementNode", data, attr, kids)
Text(data) == Node("TextNode", data, <<>>, <<>>)
Document(kids) == Node("DocumentNode", <<>>, <<>>, kids)
Script(attr, kids) == Element(S_script, attr, kids)

T_html == <<"h","t","m","l">>
T_head == <<"h","e","a","d">>
T_body == <<"b","o","d","y">>
T_div == <<"d","i","v">>
T_button == <<"b","u","t","t","o","n">>

\* index.html of the package documentation, with short contents
IndexHTML ==
    Document(<<Element(T_html, <<>>, <<
        Element(T_head, <<>>, <<
            Script(<<Attribute(S_src, R_https), Attribute(<<"a","s","y","n","c">>, <<>>)>>, <<>>),
            Script(<<>>, <<Text(C_a)>>)>>),
        Element(T_body, <<>>, <<
            Element(T_button, <<Attribute(K_onclick, C_c)>>, <<Text(<<"h">>)>>),
            Script(<<>>, <<Text(C_b)>>)>>)>>)>>)

\* index.html of the package documentation with its src, its async and defer
\* attributes and short contents
ExampleHTML ==
    Document(<<Element(T_html, <<>>, <<
        Element(T_head, <<>>, <<
            Script(<<Attribute(S_src, R_turnstile),
                     Attribute(<<"a","s","y","n","c">>, <<>>),
                     Attribute(<<"d","e","f","e","r">>, <<>>)>>, <<>>),
            Script(<<>>, <<Text(C_a)>>)>>),
        Element(T_body, <<>>, <<
            Element(T_button, <<Attribute(K_onclick, C_c)>>, <<Text(<<"h">>)>>),
            Script(<<>>, <<Text(C_b)>>)>>)>>)>>)

\* just-self.html of the package documentation
JustSelfHTML ==
    Document(<<Element(T_html, <<>>, <<
        Element(T_head, <<>>, <<Script(<<Attribute(S_src, R_rel)>>, <<>>)>>),
        Element(T_body, <<>>, <<Text(<<"i">>)>>)>>)>>)

\* a file with an empty script element between two inline scripts
EmptyScriptHTML ==
    Document(<<Element(T_html, <<>>, <<
        Element(T_head, <<>>, <<Script(<<>>, <<Text(C_b)>>), Script(<<>>, <<>>)>>),
        Element(T_body, <<>>, <<Script(<<>>, <<Text(C_a)>>)>>)>>)>>)

\* a file whose script element has two src attributes
TwoSrcHTML ==
    Document(<<Element(T_html, <<>>, <<
        Element(T_head, <<>>, <<
            Script(<<Attribute(S_src, R_httpsPort), Attribute(S_src, R_rel)>>, <<>>)>>),
        Element(T_body, <<>>, <<>>)>>)>>)

P_missing == <<"missing.html">>
P_dir == <<"dir">>
P_index == <<"index.html">>
P_justSelf == <<"just-self.html">>
P_emptyScript == <<"empty-script.html">>
P_twoSrc == <<"two-src.html">>

Paths == {P_missing, P_dir, P_index, P_justSelf, P_emptyScript, P_twoSrc}

\* os.Open: the error, Nil when the path opens
OsOpen(path) ==
    IF path = P_missing
    THEN <<"open ">> \o path \o <<": no such file or directory">>
    ELSE Nil

\* html.Parse of the opened file: it fails only when reading fails
HtmlParse(path) ==
    CASE path = P_dir -> [err |-> <<"read ">> \o path \o <<": is a directory">>,
                          doc |-> Document(<<>>)]
      [] path = P_index -> [err |-> Nil, doc |-> IndexHTML]
      [] path = P_justSelf -> [err |-> Nil, doc |-> JustSelfHTML]
      [] path = P_emptyScript -> [err |-> Nil, doc |-> EmptyScriptHTML]
      [] path = P_twoSrc -> [err |-> Nil, doc |-> TwoSrcHTML]

\* AddFromHTMLFile after the walk has returned w: its error is wrapped with the path
WalkedFile(path, w) ==
    IF w.err # Nil
    THEN [w EXCEPT !.err = <<"failed to process ">> \o path \o <<": ">> \o w.err]
    ELSE w

\* AddFromHTMLFile after html.Parse has returned p
ParsedFile(ss, path, p, includeEventHandlers) ==
    IF p.err # Nil
    THEN WalkFail(Walk(ss), <<"failed to parse ">> \o path \o <<" as HTML: ">> \o p.err, <<>>)
    ELSE WalkedFile(path, AddFromHTML(ss, p.doc, includeEventHandlers))

\* ScriptSrc.AddFromHTMLFile: the walk state, with the error the method returns
AddFromHTMLFile(ss, path, includeEventHandlers) ==
    IF OsOpen(path) # Nil THEN WalkFail(Walk(ss), OsOpen(path), <<>>)
    ELSE ParsedFile(ss, path, HtmlParse(path), includeEventHandlers)

FromHTMLFileResult(w) == [ret |-> <<w.ss>>, err |-> w.err, walk |-> w]

\* ScriptSrcFromHTMLFile: the ScriptSrc is returned with the error
ScriptSrcFromHTMLFile(path, includeEventHandlers) ==
    FromHTMLFileResult(AddFromHTMLFile(ScriptSrc(Sha512, <<>>), path, includeEventHandlers))

RECURSIVE FilesLoop(_, _, _, _, _)

\* file i has returned w: the loop ends when it failed
FileDoneStopsAtError(w, errors, paths, i, includeEventHandlers) ==
    IF w.err # Nil
    THEN [ss |-> w.ss, errors |-> Append(errors, w.err)]
    ELSE FilesLoop(w.ss, errors, paths, i + 1, includeEventHandlers)

\* file i has returned w: its error is kept and the loop goes on
FileDone(w, errors, paths, i, includeEventHandlers) ==
    FilesLoop(w.ss,
              IF w.err # Nil THEN Append(errors, w.err) ELSE errors,
              paths, i + 1, includeEventHandlers)

\* the loop of ScriptSrcFromHTMLFiles and of main over the paths, from path i on
FilesLoop(ss, errors, paths, i, includeEventHandlers) ==
    IF i > Len(paths) THEN [ss |-> ss, errors |-> errors]
    ELSE FileDone(AddFromHTMLFile(ss, paths[i], includeEventHandlers),
                  errors, paths, i, includeEventHandlers)

\* fmt's %v of a []error: [e1 e2 ...]
FormatErrors(errors) == <<"[">> \o Join(errors, " ") \o <<"]">>

\* ScriptSrcFromHTMLFiles after its loop has returned l: ret is the pointer
\* returned (<<>> is nil)
FilesResult(l) ==
    IF Len(l.errors) = 0
    THEN [ret |-> <<l.ss>>, err |-> Nil, errors |-> l.errors, shared |-> l.ss]
    ELSE IF Len(l.errors) = 1
    THEN [ret |-> <<>>, err |-> l.errors[1], errors |-> l.errors, shared |-> l.ss]
    ELSE [ret |-> <<>>, err |-> <<"multiple errors: ">> \o FormatErrors(l.errors),
          errors |-> l.errors, shared |-> l.ss]

\* ScriptSrcFromHTMLFiles
ScriptSrcFromHTMLFiles(paths, includeEventHandlers) ==
    FilesResult(FilesLoop(ScriptSrc(Sha512, <<>>), <<>>, paths, 1, includeEventHandlers))

\* main after its file loop has returned l: exit status 1 with the errors on
\* stderr, or the script-src on stdout (no template given)
MainExit(l) ==
    IF Len(l.errors) # 0
    THEN [exit |-> 1, stderr |-> l.errors, stdout |-> <<>>, shared |-> l.ss]
    ELSE [exit |-> 0, stderr |-> l.errors, stdout |-> String(l.ss), shared |-> l.ss]

\* main, after its flags are parsed
Main(hashAlgorithm, args) ==
    MainExit(FilesLoop(ScriptSrc(hashAlgorithm, <<>>), <<>>, args, 1, TRUE))
-----------------------------------------------------------------------------
(* The inputs of the model.                                                *)

SeqsUpTo(S, n) == UNION {[1..k -> S] : k \in 0..n}

\* inline contents: script bodies and event handler values
Contents == {C_a, C_b, C_c}

\* the children a generated document root is made of
Items == {
    Script(<<Attribute(S_src, R_rel)>>, <<Text(C_b)>>),
    Script(<<Attribute(K_id, C_a), Attribute(S_src, R_https), Attribute(K_onload, C_c)>>,
           <<Element(T_div, <<Attribute(K_onclick, C_c)>>, <<>>), Text(C_a)>>),
    Script(<<Attribute(S_src, R_http)>>, <<>>),
    Script(<<Attribute(S_src, R_rel), Attribute(S_src, R_https)>>, <<>>),
    Script(<<Attribute(S_src, R_https), Attribute(S_src, R_rel)>>, <<Text(C_b)>>),
    Script(<<>>, <<Text(C_a)>>),
    Script(<<Attribute(K_onload, C_c)>>, <<>>),
    Script(<<>>, <<Element(T_div, <<>>, <<>>)>>),
    Script(<<>>, <<Text(C_a), Text(C_b)>>),
    Script(<<>>, <<Node("TextNode", C_b, <<>>, <<Text(C_a)>>)>>),
    Element(T_div, <<Attribute(K_id, C_b), Attribute(K_onclick, C_c),
                     Attribute(K_o, C_a), Attribute(S_on, C_a)>>,
            <<Text(C_a), Script(<<>>, <<Text(C_b)>>)>>)
}

\* the trees AddFromHTML is called on: a root with up to MaxKids children
Docs == {Document(kids) : kids \in SeqsUpTo(Items, MaxKids)}

\* the trees with one child, and the trees of the files
SmallDocs == {Document(<<i>>) : i \in Items}
             \cup {IndexHTML, ExampleHTML, JustSelfHTML, EmptyScriptHTML, TwoSrcHTML}

\* the trees of the walk taken node by node
StepDocs ==
    {IndexHTML, JustSelfHTML, EmptyScriptHTML, TwoSrcHTML,
     Document(<<Script(<<Attribute(S_src, R_rel)>>,
                       <<Element(T_div, <<Attribute(K_onclick, C_c)>>, <<>>), Text(C_b)>>),
                Element(T_div, <<Attribute(K_onload, C_a)>>,
                        <<Script(<<>>, <<Text(C_a), Text(C_b)>>), Text(C_c)>>)>>)}

\* the tokens a caller puts in Others
OtherTokens == {<<"'","u","'">>, <<"x">>, <<"a"," ","b">>, <<>>, S_self, S_httpsSlashes \o <<"y">>}

\* the attributes, children and names of the element of a generated tree
AttrPool == {Attribute(S_src, R_rel), Attribute(S_src, R_https),
             Attribute(S_src, R_http), Attribute(K_onload, C_c)}
AttrKids == {<<>>, <<Text(C_a)>>,
             <<Element(T_div, <<Attribute(K_onclick, C_a)>>, <<>>), Text(C_c)>>}
AttrNames == {S_script, T_div}
AttrTrails == {<<>>, <<Script(<<>>, <<Text(C_a)>>)>>}

\* the trees whose first child is an element with up to MaxAttrs attributes
AttrDocs == {Document(<<Element(name, attr, kids)>> \o trail) :
                name \in AttrNames, attr \in SeqsUpTo(AttrPool, MaxAttrs),
                kids \in AttrKids, trail \in AttrTrails}

-----------------------------------------------------------------------------
(* The caller: one call at a time on the ScriptSrc it holds.               *)

NoCall ==
    [op |-> "none", content |-> <<>>, srcString |-> <<>>, n |-> Document(<<>>),
     includeEventHandlers |-> FALSE, paths |-> <<>>, pre |-> ScriptSrc(Sha512, <<>>),
     err |-> Nil, out |-> <<>>, walk |-> Walk(ScriptSrc(Sha512, <<>>)), ret |-> <<>>,
     errors |-> <<>>, shared |-> ScriptSrc(Sha512, <<>>), exit |-> 0,
     todo |-> <<>>, i |-> 0]

Called(op) == [NoCall EXCEPT !.op = op, !.pre = scriptSrc]

\* a caller's ScriptSrc{DefaultHashAlgorithm: ...} literal
Init ==
    /\ \E alg \in HashAlgorithm : scriptSrc = ScriptSrc(alg, <<>>)
    /\ pc = "idle"
    /\ last = NoCall

\* a caller's literal that also sets Others
InitOthers ==
    /\ \E alg \in HashAlgorithm, others \in SeqsUpTo(OtherTokens, MaxOthers) :
          scriptSrc = ScriptSrc(alg, others)
    /\ pc = "idle"
    /\ last = NoCall

CallAddInline(content) ==
    /\ pc = "idle"
    /\ scriptSrc' = AddInline(scriptSrc, content)
    /\ last' = [Called("AddInline") EXCEPT !.content = content]
    /\ pc' = "returned"

AddSrcReturns(srcString, r) ==
    /\ scriptSrc' = r.ss
    /\ last' = [Called("AddSrc") EXCEPT !.srcString = srcString, !.err = r.err]

CallAddSrc(srcString) ==
    /\ pc = "idle"
    /\ AddSrcReturns(srcString, AddSrc(scriptSrc, srcString))
    /\ pc' = "returned"

AddFromHTMLReturns(n, includeEventHandlers, w) ==
    /\ scriptSrc' = w.ss
    /\ last' = [Called("AddFromHTML") EXCEPT
                   !.n = n, !.includeEventHandlers = includeEventHandlers,
                   !.err = w.err, !.walk = w]

CallAddFromHTML(n, includeEventHandlers) ==
    /\ pc = "idle"
    /\ AddFromHTMLReturns(n, includeEventHandlers,
                          AddFromHTML(scriptSrc, n, includeEventHandlers))
    /\ pc' = "returned"

AddFromHTMLFileReturns(path, includeEventHandlers, w) ==
    /\ scriptSrc' = w.ss
    /\ last' = [Called("AddFromHTMLFile") EXCEPT
                   !.paths = <<path>>, !.includeEventHandlers = includeEventHandlers,
                   !.err = w.err, !.walk = w]

CallAddFromHTMLFile(path, includeEventHandlers) ==
    /\ pc = "idle"
    /\ AddFromHTMLFileReturns(path, includeEventHandlers,
                              AddFromHTMLFile(scriptSrc, path, includeEventHandlers))
    /\ pc' = "returned"

\* the caller holds the ScriptSrc returned from here on
ScriptSrcFromHTMLFileReturns(path, includeEventHandlers, r) ==
    /\ scriptSrc' = r.ret[1]
    /\ last' = [Called("ScriptSrcFromHTMLFile") EXCEPT
                   !.paths = <<path>>, !.includeEventHandlers = includeEventHandlers,
                   !.err = r.err, !.walk = r.walk, !.ret = r.ret]

CallScriptSrcFromHTMLFile(path, includeEventHandlers) ==
    /\ pc = "idle"
    /\ ScriptSrcFromHTMLFileReturns(path, includeEventHandlers,
                                    ScriptSrcFromHTMLFile(path, includeEventHandlers))
    /\ pc' = "returned"

\* the caller holds the ScriptSrc returned from here on, when one is returned
ScriptSrcFromHTMLFilesReturns(paths, includeEventHandlers, r) ==
    /\ scriptSrc' = IF r.ret # <<>> THEN r.ret[1] ELSE scriptSrc
    /\ last' = [Called("ScriptSrcFromHTMLFiles") EXCEPT
                   !.paths = paths, !.includeEventHandlers = includeEventHandlers,
                   !.err = r.err, !.ret = r.ret, !.errors = r.errors,
                   !.shared = r.shared]

CallScriptSrcFromHTMLFiles(paths, includeEventHandlers) ==
    /\ pc = "idle"
    /\ ScriptSrcFromHTMLFilesReturns(paths, includeEventHandlers,
                                     ScriptSrcFromHTMLFiles(paths, includeEventHandlers))
    /\ pc' = "returned"

CallString ==
    /\ pc = "idle"
    /\ last' = [Called("String") EXCEPT !.out = String(scriptSrc)]
    /\ pc' = "returned"
    /\ UNCHANGED scriptSrc

MainReturns(args, r) ==
    last' = [Called("main") EXCEPT
                !.paths = args, !.includeEventHandlers = TRUE, !.exit = r.exit,
                !.errors = r.stderr, !.out = r.stdout, !.shared = r.shared]

\* a run of the command line tool: it has its own ScriptSrc
CallMain(hashAlgorithm, args) ==
    /\ pc = "idle"
    /\ MainReturns(args, Main(hashAlgorithm, args))
    /\ pc' = "returned"
    /\ UNCHANGED scriptSrc

\* the caller has looked at the result
Return ==
    /\ pc = "returned"
    /\ pc' = "idle"
    /\ last' = NoCall
    /\ UNCHANGED scriptSrc

Next ==
    \/ \E content \in Contents : CallAddInline(content)
    \/ \E srcString \in SrcStrings : CallAddSrc(srcString)
    \/ \E n \in SmallDocs, ieh \in BOOLEAN : CallAddFromHTML(n, ieh)
    \/ \E path \in Paths, ieh \in BOOLEAN : CallAddFromHTMLFile(path, ieh)
    \/ \E path \in Paths, ieh \in BOOLEAN : CallScriptSrcFromHTMLFile(path, ieh)
    \/ CallString
    \/ Return

\* every method, over the small inputs
Spec == Init /\ [][Next]_vars

NextWalk ==
    \/ \E n \in Docs, ieh \in BOOLEAN : CallAddFromHTML(n, ieh)
    \/ Return

\* AddFromHTML over the generated trees
SpecWalk == Init /\ [][NextWalk]_vars

NextFiles ==
    \/ \E paths \in SeqsUpTo(Paths, MaxPaths), ieh \in BOOLEAN :
          CallScriptSrcFromHTMLFiles(paths, ieh)
    \/ \E alg \in HashAlgorithm, args \in SeqsUpTo(Paths, MaxPaths) : CallMain(alg, args)
    \/ CallString
    \/ Return

\* the entry points that take a list of files
SpecFiles == Init /\ [][NextFiles]_vars

NextSrc ==
    \/ CallAddInline(C_a)
    \/ \E srcString \in Refs : CallAddSrc(srcString)
    \/ Return

\* AddSrc over the references put together from their parts
SpecSrc == Init /\ [][NextSrc]_vars

NextFormat ==
    \/ \E content \in {C_a, C_b} : CallAddInline(content)
    \/ \E srcString \in FormatSrcStrings : CallAddSrc(srcString)
    \/ CallString
    \/ Return

\* String over what the calls and a caller's Others make of a ScriptSrc
SpecFormat == InitOthers /\ [][NextFormat]_vars

NextGrow ==
    \/ \E content \in {C_a, C_b} : CallAddInline(content)
    \/ \E srcString \in SrcStrings : CallAddSrc(srcString)
    \/ \E n \in StepDocs, ieh \in BOOLEAN : CallAddFromHTML(n, ieh)
    \/ Return

\* the methods that change a ScriptSrc, on a caller's literal with Others
SpecGrow == InitOthers /\ [][NextGrow]_vars

NextOrder ==
    \/ \E n \in SmallDocs, ieh \in BOOLEAN : CallAddFromHTML(n, ieh)
    \/ Return

\* one walk after the other on the same ScriptSrc
SpecOrder == Init /\ [][NextOrder]_vars

NextAttrs ==
    \/ \E n \in AttrDocs, ieh \in BOOLEAN : CallAddFromHTML(n, ieh)
    \/ \E srcString \in RelativeRefs : CallAddSrc(srcString)
    \/ Return

\* AddFromHTML over the trees of an element with its attributes, and AddSrc
\* over the references without a scheme part
SpecAttrs == Init /\ [][NextAttrs]_vars

-----------------------------------------------------------------------------
(* The walk and the file loop one node and one file at a time: AddFromHTML *)
(* on a node is taken as one step, and the nodes its loops have still to   *)
(* go to are kept, first first, in last.todo (the call stack, flattened).  *)

\* the paths of the children of the node at path at, first child first
ChildPaths(n, at) == [i \in 1..Len(n.Kids) |-> Append(at, i)]

\* what AddFromHTML does on node n before it goes to its children
EnterNode(w, n, at, includeEventHandlers) ==
    IF n.Type = "ElementNode" /\ n.Data = S_script
    THEN ScriptNode(ScriptAttrs(Visit(w, at), n.Attr, 1, FALSE, at), n, at,
                    includeEventHandlers)
    ELSE IF includeEventHandlers
    THEN EventHandlers(Visit(w, at), n.Attr, 1, at)
    ELSE Visit(w, at)

\* a children loop that goes through the children twice
PendingTwice(w, n, at, rest) ==
    IF w.err # Nil THEN <<>>
    ELSE IF n.Type = "ElementNode" /\ n.Data = S_script THEN rest
    ELSE ChildPaths(n, at) \o ChildPaths(n, at) \o rest

\* the nodes still to go to once node n is entered (w): an error returns from
\* every loop, a script element returns, any other node loops over its children
Pending(w, n, at, rest) ==
    IF w.err # Nil THEN <<>>
    ELSE IF n.Type = "ElementNode" /\ n.Data = S_script THEN rest
    ELSE ChildPaths(n, at) \o rest

\* the caller goes on with a ScriptSrc of up to MaxHeld entries
FewHeld(ss) == Len(ss.Hashes) + Len(ss.Hosts) <= MaxHeld

BeginAddFromHTML(n, includeEventHandlers) ==
    /\ pc = "idle"
    /\ FewHeld(scriptSrc)
    /\ last' = [Called("AddFromHTML") EXCEPT
                   !.n = n, !.includeEventHandlers = includeEventHandlers,
                   !.walk = Walk(scriptSrc), !.todo = <<<<>>>>]
    /\ pc' = "walking"
    /\ UNCHANGED scriptSrc

\* the node at path at is entered (w); the receiver of AddFromHTML is changed in place
Entered(w, at, rest) ==
    /\ last' = [last EXCEPT !.walk = w, !.todo = Pending(w, NodeAt(last.n, at), at, rest)]
    /\ scriptSrc' = IF pc = "walking" THEN w.ss ELSE scriptSrc

\* AddFromHTML is called on the next node
StepWalk ==
    /\ pc \in {"walking", "fileWalking"}
    /\ last.todo # <<>>
    /\ Entered(EnterNode(last.walk, NodeAt(last.n, Head(last.todo)), Head(last.todo),
                         last.includeEventHandlers),
               Head(last.todo), Tail(last.todo))
    /\ UNCHANGED pc

\* the outermost AddFromHTML returns
EndAddFromHTML ==
    /\ pc = "walking"
    /\ last.todo = <<>>
    /\ last' = [last EXCEPT !.err = last.walk.err]
    /\ pc' = "returned"
    /\ UNCHANGED scriptSrc

BeginFiles(paths, includeEventHandlers) ==
    /\ pc = "idle"
    /\ FewHeld(scriptSrc)
    /\ last' = [Called("ScriptSrcFromHTMLFiles") EXCEPT
                   !.paths = paths, !.includeEventHandlers = includeEventHandlers,
                   !.shared = ScriptSrc(Sha512, <<>>), !.i = 1]
    /\ pc' = "files"
    /\ UNCHANGED scriptSrc

\* AddFromHTMLFile has returned error e before any walk
FileFailed(e) ==
    /\ last' = [last EXCEPT !.errors = Append(@, e), !.i = @ + 1]
    /\ UNCHANGED pc

\* AddFromHTMLFile has parsed its file and calls AddFromHTML on the root
FileParsed(doc) ==
    /\ last' = [last EXCEPT !.n = doc, !.walk = Walk(last.shared), !.todo = <<<<>>>>]
    /\ pc' = "fileWalking"

\* the loop of ScriptSrcFromHTMLFiles calls AddFromHTMLFile with the next path
OpenFile ==
    /\ pc = "files"
    /\ last.i <= Len(last.paths)
    /\ IF OsOpen(last.paths[last.i]) # Nil
       THEN FileFailed(OsOpen(last.paths[last.i]))
       ELSE IF HtmlParse(last.paths[last.i]).err # Nil
       THEN FileFailed(ParsedFile(last.shared, last.paths[last.i],
                                  HtmlParse(last.paths[last.i]),
                                  last.includeEventHandlers).err)
       ELSE FileParsed(HtmlParse(last.paths[last.i]).doc)
    /\ UNCHANGED scriptSrc

\* AddFromHTMLFile returns from its walk, and its error is kept
EndFileWalk ==
    /\ pc = "fileWalking"
    /\ last.todo = <<>>
    /\ last' = [last EXCEPT
                   !.shared = last.walk.ss,
                   !.errors = IF last.walk.err # Nil
                              THEN Append(@, WalkedFile(last.paths[last.i], last.walk).err)
                              ELSE @,
                   !.i = @ + 1]
    /\ pc' = "files"
    /\ UNCHANGED scriptSrc

FilesReturn(r) ==
    /\ scriptSrc' = IF r.ret # <<>> THEN r.ret[1] ELSE scriptSrc
    /\ last' = [last EXCEPT !.err = r.err, !.ret = r.ret]

\* ScriptSrcFromHTMLFiles returns after its loop
EndFiles ==
    /\ pc = "files"
    /\ last.i > Len(last.paths)
    /\ FilesReturn(FilesResult([ss |-> last.shared, errors |-> last.errors]))
    /\ pc' = "returned"

\* the files taken step by step: one that does not open, one that does not
\* parse, one that walks to the end and one whose walk fails
StepPaths == {P_missing, P_dir, P_index, P_twoSrc}

NextSteps ==
    \/ \E n \in StepDocs, ieh \in BOOLEAN : BeginAddFromHTML(n, ieh)
    \/ \E paths \in SeqsUpTo(StepPaths, MaxPaths), ieh \in BOOLEAN : BeginFiles(paths, ieh)
    \/ StepWalk
    \/ EndAddFromHTML
    \/ OpenFile
    \/ EndFileWalk
    \/ EndFiles
    \/ Return

\* the walk and the file loop step by step; the program is sequential, so a
\* call that has begun takes each of its steps
SpecSteps ==
    /\ Init
    /\ [][NextSteps]_vars
    /\ WF_vars(StepWalk)
    /\ WF_vars(EndAddFromHTML)
    /\ WF_vars(OpenFile)
    /\ WF_vars(EndFileWalk)
    /\ WF_vars(EndFiles)

-----------------------------------------------------------------------------
(* What the claims are stated with.                                        *)

Returned(op) == pc = "returned" /\ last.op = op

IsScript(n) == n.Type = "ElementNode" /\ n.Data = S_script

\* the values of the src attributes of a node, in attribute order
SrcValues(n) ==
    LET srcAttrs == SelectSeq(n.Attr, LAMBDA a : a.Key = S_src)
    IN  [i \in 1..Len(srcAttrs) |-> srcAttrs[i].Val]

\* path at is strictly below path top
Below(at, top) == Len(at) > Len(top) /\ SubSeq(at, 1, Len(top)) = top

NoDuplicates(list) == \A i, j \in 1..Len(list) : list[i] = list[j] => i = j

\* a list without the entries that occur earlier in it
RECURSIVE FirstSeen(_)
FirstSeen(list) ==
    IF list = <<>> THEN <<>>
    ELSE LET front == FirstSeen(SubSeq(list, 1, Len(list) - 1))
         IN  IF Contains(front, list[Len(list)]) THEN front
             ELSE Append(front, list[Len(list)])

\* the concatenation of a list of lists
RECURSIVE Flatten(_)
Flatten(lists) == IF lists = <<>> THEN <<>> ELSE Head(lists) \o Flatten(Tail(lists))

\* the first place at or after from where needle occurs in hay; 0 when none
Occurs(hay, needle, from) ==
    LET at == {k \in from..(Len(hay) - Len(needle) + 1) :
                  SubSeq(hay, k, k + Len(needle) - 1) = needle}
    IN  IF at = {} THEN 0 ELSE CHOOSE k \in at : \A j \in at : k <= j

\* the messages of errs occur in message e one after the other, in order
RECURSIVE CarriesFrom(_, _, _)
CarriesFrom(e, errs, from) ==
    \/ errs = <<>>
    \/ LET k == Occurs(e, Head(errs), from)
       IN  k # 0 /\ CarriesFrom(e, Tail(errs), k + Len(Head(errs)))

HTTPColon == <<"h","t","t","p",":">>

\* the reference begins with the scheme http, in any case of letters
HasHTTPScheme(srcString) ==
    Len(srcString) >= 5 /\ ToLower(SubSeq(srcString, 1, 5)) = HTTPColon

-----------------------------------------------------------------------------
(* The claims.                                                             *)

\* C1: when the walk reaches a script element with exactly one src attribute
\* whose value AddSrc rejects, AddFromHTML returns that error.
C1_WalkReturnsSrcError ==
    Returned("AddFromHTML") =>
        \A i \in 1..Len(last.walk.visited) :
            LET n == NodeAt(last.n, last.walk.visited[i]) IN
            (IsScript(n) /\ Len(SrcValues(n)) = 1
                /\ AddSrc(last.pre, SrcValues(n)[1]).err # Nil)
            => last.err = AddSrc(last.pre, SrcValues(n)[1]).err

\* C2: AddSrc with a reference whose scheme is http returns an error and
\* leaves the ScriptSrc (Self, Hosts, Hashes, Others) as it was.
C2_HttpRejected ==
    (Returned("AddSrc") /\ HasHTTPScheme(last.srcString)) =>
        /\ last.err # Nil
        /\ scriptSrc = last.pre

\* an http reference is rejected by a ScriptSrc that already holds entries
C2_Witness ==
    /\ Returned("AddSrc")
    /\ HasHTTPScheme(last.srcString)
    /\ Len(last.srcString) > 8
    /\ last.pre.Self
    /\ Len(last.pre.Hosts) >= 2
    /\ last.pre.Hashes # <<>>
    /\ last.err # Nil

\* what one file makes of an empty ScriptSrc
FileAlone(path, includeEventHandlers) ==
    AddFromHTMLFile(ScriptSrc(Sha512, <<>>), path, includeEventHandlers)

\* the errors of the paths that fail, in the order of the paths
ExpectedErrors(paths, includeEventHandlers) ==
    LET errs == [i \in 1..Len(paths) |-> FileAlone(paths[i], includeEventHandlers).err]
    IN  SelectSeq(errs, LAMBDA e : e # Nil)

\* C3: ScriptSrcFromHTMLFiles takes every path in input order into one
\* ScriptSrc, also after a path has failed; it returns that ScriptSrc exactly
\* when no file failed, and otherwise no ScriptSrc and an error that carries
\* the error of every failed file, in input order.
C3_FilesCollectErrors ==
    Returned("ScriptSrcFromHTMLFiles") =>
        LET ieh == last.includeEventHandlers
            alone == [i \in 1..Len(last.paths) |-> FileAlone(last.paths[i], ieh).ss]
            expected == ExpectedErrors(last.paths, ieh)
        IN  /\ last.errors = expected
            /\ last.shared.Hashes
                 = FirstSeen(Flatten([i \in 1..Len(last.paths) |-> alone[i].Hashes]))
            /\ last.shared.Hosts
                 = FirstSeen(Flatten([i \in 1..Len(last.paths) |-> alone[i].Hosts]))
            /\ last.shared.Self = (\E i \in 1..Len(last.paths) : alone[i].Self)
            /\ (expected = <<>>) <=> (last.ret # <<>>)
            /\ expected = <<>> => (last.err = Nil /\ last.ret = <<last.shared>>)
            /\ expected # <<>> => (last.err # Nil /\ CarriesFrom(last.err, expected, 1))

\* a file after a failed one has been walked, and two errors are returned together
C3_Witness ==
    /\ Returned("ScriptSrcFromHTMLFiles")
    /\ Len(last.paths) = 2
    /\ FileAlone(last.paths[1], last.includeEventHandlers).err # Nil
    /\ FileAlone(last.paths[1], last.includeEventHandlers).ss.Hashes = <<>>
    /\ FileAlone(last.paths[2], last.includeEventHandlers).err # Nil
    /\ last.shared.Hashes # <<>>
    /\ Len(last.errors) = 2
    /\ last.ret = <<>>

\* C4: from an empty ScriptSrc, whatever calls are made, Hashes and Hosts
\* hold no entry twice, every host begins with https://, and adding an
\* inline text or a reference a second time adds no entry.
C4_NoDuplicates ==
    /\ NoDuplicates(scriptSrc.Hashes)
    /\ NoDuplicates(scriptSrc.Hosts)
    /\ \A i \in 1..Len(scriptSrc.Hosts) : HasPrefix(scriptSrc.Hosts[i], S_httpsSlashes)
    /\ \A content \in Contents :
          AddInline(AddInline(scriptSrc, content), content) = AddInline(scriptSrc, content)
    /\ \A srcString \in SrcStrings :
          AddSrc(AddSrc(scriptSrc, srcString).ss, srcString).ss = AddSrc(scriptSrc, srcString).ss
    /\ (Returned("AddInline")
          /\ Contains(last.pre.Hashes, InlineHash(last.pre.DefaultHashAlgorithm, last.content)))
       => scriptSrc = last.pre

\* a reference is added again to a ScriptSrc that holds two hosts and two hashes
C4_Witness ==
    /\ Returned("AddSrc")
    /\ last.srcString = R_https
    /\ Contains(last.pre.Hosts, S_httpsSlashes \o <<"x">>)
    /\ Len(scriptSrc.Hosts) = 2
    /\ Len(scriptSrc.Hashes) >= 2
    /\ scriptSrc = last.pre

\* host[:port] of the references put together from their parts
HostPorts == {<<"x">>, <<"x",":","8">>}

\* C5: an https reference to host[:port], whatever its path, query and
\* fragment, leaves exactly one entry https://host[:port] in Hosts: it is
\* appended when the ScriptSrc does not hold it and nothing changes when it does.
C5_OneEntryPerOrigin ==
    Returned("AddSrc") =>
        \A s \in {S_https, <<"H","t","t","p","S">>}, a \in HostPorts,
           p \in {<<>>, <<"/","p">>}, q \in RefQueries, f \in RefFragments :
            last.srcString = s \o <<":","/","/">> \o a \o p \o q \o f =>
                LET origin == S_httpsSlashes \o a IN
                /\ last.err = Nil
                /\ Cardinality({i \in 1..Len(scriptSrc.Hosts) : scriptSrc.Hosts[i] = origin}) = 1
                /\ IF Contains(last.pre.Hosts, origin)
                   THEN scriptSrc = last.pre
                   ELSE scriptSrc = [last.pre EXCEPT !.Hosts = Append(@, origin)]

\* a reference with path, query and fragment to an origin the ScriptSrc holds
C5_Witness ==
    /\ Returned("AddSrc")
    /\ last.srcString = S_httpsSlashes \o <<"x",":","8","/","p","?","/","q","#","f">>
    /\ last.pre.Hosts = <<S_httpsSlashes \o <<"x">>, S_httpsSlashes \o <<"x",":","8">>>>
    /\ scriptSrc.Hosts = last.pre.Hosts

\* the tokens String puts out for a ScriptSrc, by position: 'self' when Self is
\* set, the hashes in quotes, the hosts, the others
TokenCount(ss) ==
    (IF ss.Self THEN 1 ELSE 0) + Len(ss.Hashes) + Len(ss.Hosts) + Len(ss.Others)

TokenAt(ss, k) ==
    LET b == IF ss.Self THEN 1 ELSE 0
        h == b + Len(ss.Hashes)
        o == h + Len(ss.Hosts)
    IN  IF k <= b THEN S_self
        ELSE IF k <= h THEN <<"'">> \o ss.Hashes[k - b] \o <<"'">>
        ELSE IF k <= o THEN ss.Hosts[k - h]
        ELSE ss.Others[k - o]

\* where token k begins in the output, less one
RECURSIVE TokenOffset(_, _)
TokenOffset(ss, k) ==
    IF k = 1 THEN 0 ELSE TokenOffset(ss, k - 1) + Len(TokenAt(ss, k - 1)) + 1

OnValues(n) ==
    LET onAttrs == SelectSeq(n.Attr, LAMBDA a : HasPrefix(a.Key, S_on))
    IN  [i \in 1..Len(onAttrs) |-> onAttrs[i].Val]

\* the inline texts of a tree in pre-order, children from left to right: the
\* text of a script element without src, and for any other node its event
\* handler values (when they are included) and then what its children hold
RECURSIVE Encounter(_, _)
Encounter(n, includeEventHandlers) ==
    IF IsScript(n)
    THEN IF SrcValues(n) = <<>> /\ n.Kids # <<>> THEN <<n.Kids[1].Data>> ELSE <<>>
    ELSE (IF includeEventHandlers THEN OnValues(n) ELSE <<>>)
         \o Flatten([i \in 1..Len(n.Kids) |-> Encounter(n.Kids[i], includeEventHandlers)])

HashesOf(alg, contents) == [i \in 1..Len(contents) |-> InlineHash(alg, contents[i])]

\* C7: after a walk that succeeds, Hashes holds the hashes it held before the
\* walk, in their order, and then the hashes of the inline texts of the tree
\* in the order a pre-order, left-to-right traversal meets them first: a
\* node's own event handler values in attribute order, then its descendants,
\* then its later siblings.
C7_EncounterOrder ==
    (Returned("AddFromHTML") /\ last.err = Nil) =>
        scriptSrc.Hashes =
            FirstSeen(last.pre.Hashes
                      \o HashesOf(last.pre.DefaultHashAlgorithm,
                                  Encounter(last.n, last.includeEventHandlers)))

\* a walk over a script, then an element with two handlers and a script below
\* it, by a ScriptSrc that held a hash, one of the texts met twice
C7_Witness ==
    /\ Returned("AddFromHTML")
    /\ last.err = Nil
    /\ last.includeEventHandlers
    /\ last.pre.Hashes # <<>>
    /\ Len(last.n.Kids) = 2
    /\ IsScript(last.n.Kids[1])
    /\ ~IsScript(last.n.Kids[2])
    /\ Len(OnValues(last.n.Kids[2])) >= 2
    /\ Len(Encounter(last.n, TRUE)) = 4
    /\ Len(scriptSrc.Hashes) = Len(last.pre.Hashes) + 2

InvalidInlineScript == {E_noContent, E_notText, E_multiple}

\* the children of a script element are exactly one text node without children
ValidInline(n) ==
    /\ Len(n.Kids) = 1
    /\ n.Kids[1].Type = "TextNode"
    /\ n.Kids[1].Kids = <<>>

\* the AddInline calls the walk made for the node at path at
InlinedAt(w, at) == SelectSeq(w.inlined, LAMBDA e : e.at = at)

\* the script elements without src that the walk has reached
InlineScriptsReached ==
    {at \in Range(last.walk.visited) :
        IsScript(NodeAt(last.n, at)) /\ SrcValues(NodeAt(last.n, at)) = <<>>}

\* C8: for a script element without src that the walk reaches, when its
\* children are not exactly one text node without children the walk returns
\* one of the invalid inline script errors from that element and adds no hash
\* for it; otherwise exactly the text of that node is given to AddInline, once.
C8_InlineShape ==
    Returned("AddFromHTML") =>
        \A at \in InlineScriptsReached :
            LET n == NodeAt(last.n, at) IN
            IF ValidInline(n)
            THEN /\ InlinedAt(last.walk, at) = <<[at |-> at, content |-> n.Kids[1].Data]>>
                 /\ Contains(scriptSrc.Hashes,
                             InlineHash(last.pre.DefaultHashAlgorithm, n.Kids[1].Data))
                 /\ last.err # Nil => last.walk.errAt # at
            ELSE /\ last.err \in InvalidInlineScript
                 /\ last.walk.errAt = at
                 /\ InlinedAt(last.walk, at) = <<>>
                 /\ Len(n.Kids) = 0 <=> last.err = E_noContent
                 /\ scriptSrc.Hashes =
                        FirstSeen(last.pre.Hashes
                                  \o HashesOf(last.pre.DefaultHashAlgorithm,
                                              [i \in 1..Len(last.walk.inlined) |->
                                                  last.walk.inlined[i].content]))

\* a walk that took the text of one script and failed on a script with two children
C8_Witness ==
    /\ Returned("AddFromHTML")
    /\ last.err = E_multiple
    /\ \E at \in InlineScriptsReached : InlinedAt(last.walk, at) # <<>>
    /\ \E at \in InlineScriptsReached : Len(NodeAt(last.n, at).Kids) = 2
    /\ Len(scriptSrc.Hashes) > Len(last.pre.Hashes)

\* the script elements with src and with children that the walk has reached
SrcScriptsWithChildren ==
    {at \in Range(last.walk.visited) :
        /\ IsScript(NodeAt(last.n, at))
        /\ SrcValues(NodeAt(last.n, at)) # <<>>
        /\ NodeAt(last.n, at).Kids # <<>>}

\* C9: for a script element with a src attribute and with children, the walk
\* gives the src to AddSrc and does nothing else: it makes no AddInline call
\* for the element or below it, so Hashes takes nothing from it, it enters
\* none of its children, and it returns no invalid inline script error from
\* it, whatever its children are.
C9_SrcOnly ==
    Returned("AddFromHTML") =>
        /\ \A at \in SrcScriptsWithChildren :
              /\ \E i \in 1..Len(last.walk.srcs) :
                    /\ last.walk.srcs[i].at = at
                    /\ last.walk.srcs[i].src = SrcValues(NodeAt(last.n, at))[1]
              /\ \A i \in 1..Len(last.walk.inlined) :
                    /\ last.walk.inlined[i].at # at
                    /\ ~Below(last.walk.inlined[i].at, at)
              /\ \A i \in 1..Len(last.walk.visited) : ~Below(last.walk.visited[i], at)
              /\ ~(last.err \in InvalidInlineScript /\ last.walk.errAt = at)
        /\ scriptSrc.Hashes =
              FirstSeen(last.pre.Hashes
                        \o [i \in 1..Len(last.walk.inlined) |->
                               InlineHash(last.pre.DefaultHashAlgorithm,
                                          last.walk.inlined[i].content)])

\* a walk with event handlers that passed a script with src whose children are
\* an element with a handler and a text, and left Hashes as it was
C9_Witness ==
    /\ Returned("AddFromHTML")
    /\ last.err = Nil
    /\ last.includeEventHandlers
    /\ \E at \in SrcScriptsWithChildren :
          /\ Len(NodeAt(last.n, at).Kids) = 2
          /\ OnValues(NodeAt(last.n, at).Kids[1]) # <<>>
    /\ scriptSrc.Hashes = last.pre.Hashes
    /\ scriptSrc.Hosts # last.pre.Hosts

Whitespace == {" ", "\t", "\n"}

\* the tokens of a string: it is split at whitespace outside single quotes, and
\* a quote opens or closes a quoted stretch and stays in its token
RECURSIVE Scan(_, _, _, _, _)
Scan(out, i, inQuote, cur, tokens) ==
    IF i > Len(out) THEN (IF cur = <<>> THEN tokens ELSE Append(tokens, cur))
    ELSE IF out[i] \in Whitespace /\ ~inQuote
    THEN Scan(out, i + 1, FALSE, <<>>, IF cur = <<>> THEN tokens ELSE Append(tokens, cur))
    ELSE Scan(out, i + 1, IF out[i] = "'" THEN ~inQuote ELSE inQuote,
              Append(cur, out[i]), tokens)

Tokenize(out) == Scan(out, 1, FALSE, <<>>, <<>>)

S_sha384 == <<"s","h","a","3","8","4","-">>

IsQuoted(t) == Len(t) >= 2 /\ t[1] = "'" /\ t[Len(t)] = "'"

\* the kind of a token of a script-src
TokenKind(t) ==
    IF t = S_self THEN "self"
    ELSE IF IsQuoted(t) /\ \E prefix \in {S_sha256, S_sha384, S_sha512} :
                              HasPrefix(SubSeq(t, 2, Len(t)), prefix)
    THEN "digest"
    ELSE IF HasPrefix(t, S_httpsSlashes) THEN "host"
    ELSE "other"

CountKind(tokens, kind) == Cardinality({i \in 1..Len(tokens) : TokenKind(tokens[i]) = kind})

\* the tokens of the output are as many of each kind as the ScriptSrc holds
CountsAgree(ss, out) ==
    LET tokens == Tokenize(out)
    IN  /\ CountKind(tokens, "self") = (IF ss.Self THEN 1 ELSE 0)
        /\ CountKind(tokens, "digest") = Len(ss.Hashes)
        /\ CountKind(tokens, "host") = Len(ss.Hosts)
        /\ CountKind(tokens, "other") = Len(ss.Others)

\* C10 as stated: for every ScriptSrc, whatever the caller has put in Others,
\* the output of String split at whitespace outside quotes holds one 'self'
\* token exactly when Self is set, and as many quoted digest tokens, host
\* tokens and other tokens as Hashes, Hosts and Others have entries.
C10_RoundTrip ==
    Returned("String") => CountsAgree(scriptSrc, last.out)

\* an entry is one token for the split: not empty, without whitespace, and
\* with single quotes only as a pair around it
OneToken(t) ==
    /\ t # <<>>
    /\ \A i \in 1..Len(t) : t[i] \notin Whitespace
    /\ \A i \in 1..Len(t) : t[i] = "'" => (IsQuoted(t) /\ i \in {1, Len(t)})

WellFormed(ss) ==
    /\ \A i \in 1..Len(ss.Hashes) :
          /\ OneToken(<<"'">> \o ss.Hashes[i] \o <<"'">>)
          /\ TokenKind(<<"'">> \o ss.Hashes[i] \o <<"'">>) = "digest"
    /\ \A i \in 1..Len(ss.Hosts) :
          OneToken(ss.Hosts[i]) /\ TokenKind(ss.Hosts[i]) = "host"
    /\ \A i \in 1..Len(ss.Others) :
          OneToken(ss.Others[i]) /\ TokenKind(ss.Others[i]) = "other"

\* C10 as amended: the counts agree for every ScriptSrc whose hashes in quotes,
\* hosts and others are each one token of their own kind for the split: not
\* empty, without whitespace, with single quotes only as a pair around the
\* entry, a host beginning with https://, and an other that is neither 'self',
\* nor a quoted digest, nor beginning with https://.
C10_RoundTripWellFormed ==
    (Returned("String") /\ WellFormed(scriptSrc)) => CountsAgree(scriptSrc, last.out)

\* String has returned for a well-formed ScriptSrc with Self, two hashes, a
\* host and a quoted other
C10_Witness ==
    /\ Returned("String")
    /\ WellFormed(scriptSrc)
    /\ scriptSrc.Self
    /\ Len(scriptSrc.Hashes) = 2
    /\ Len(scriptSrc.Hosts) = 1
    /\ Len(scriptSrc.Others) = 1
    /\ IsQuoted(scriptSrc.Others[1])
    /\ Len(Tokenize(last.out)) = 5

\* the script elements with more than one src attribute that the walk has reached
TwoSrcScriptsReached ==
    {at \in Range(last.walk.visited) :
        IsScript(NodeAt(last.n, at)) /\ Len(SrcValues(NodeAt(last.n, at))) > 1}

\* the error of a second src attribute
DuplicateAttribute(val) == <<"script tag had a second src attribute: ">> \o val

\* C11: when the walk reaches a script element with more than one src
\* attribute, it returns the second src attribute error from that element,
\* whatever the values of the attributes and whatever the children.
C11_SecondSrcFails ==
    Returned("AddFromHTML") =>
        \A at \in TwoSrcScriptsReached :
            /\ last.err = DuplicateAttribute(SrcValues(NodeAt(last.n, at))[2])
            /\ last.walk.errAt = at

\* the walk has failed on a script with children whose two src are the same
\* http reference
C11_Witness ==
    /\ Returned("AddFromHTML")
    /\ last.err = DuplicateAttribute(R_http)
    /\ \E at \in TwoSrcScriptsReached :
          /\ SrcValues(NodeAt(last.n, at)) = <<R_http, R_http>>
          /\ Len(NodeAt(last.n, at).Kids) = 2

\* url.Parse takes the reference and finds no scheme in it
NoScheme(srcString) == Parse(srcString).err = Nil /\ Parse(srcString).Scheme = <<>>

\* the tree holds one script element, whose one src has no scheme, and nothing else
OnlyRelativeScript(n) ==
    /\ Len(n.Kids) = 1
    /\ IsScript(n.Kids[1])
    /\ Len(SrcValues(n.Kids[1])) = 1
    /\ NoScheme(SrcValues(n.Kids[1])[1])

\* C12: AddSrc with a reference without scheme, and the walk of a tree whose
\* only script is a script element with such a src, return no error, set Self
\* and leave Hosts, Hashes, Others and DefaultHashAlgorithm as they were.
C12_RelativeSetsSelf ==
    /\ (Returned("AddSrc") /\ NoScheme(last.srcString)) =>
          last.err = Nil /\ scriptSrc = [last.pre EXCEPT !.Self = TRUE]
    /\ (Returned("AddFromHTML") /\ OnlyRelativeScript(last.n)) =>
          last.err = Nil /\ scriptSrc = [last.pre EXCEPT !.Self = TRUE]

\* Self was not set and the ScriptSrc held a host and a hash when a walk with
\* event handlers met the script, which has an event handler and children
C12_Witness ==
    /\ Returned("AddFromHTML")
    /\ OnlyRelativeScript(last.n)
    /\ last.includeEventHandlers
    /\ Len(last.n.Kids[1].Kids) = 2
    /\ Len(last.n.Kids[1].Attr) = 2
    /\ ~last.pre.Self
    /\ scriptSrc.Self
    /\ last.pre.Hosts # <<>>
    /\ last.pre.Hashes # <<>>

\* AddSrc has set Self for a reference without scheme that names a host
C12_WitnessAddSrc ==
    /\ Returned("AddSrc")
    /\ NoScheme(last.srcString)
    /\ Parse(last.srcString).Host # <<>>
    /\ ~last.pre.Self
    /\ last.pre.Hosts # <<>>

\* the paths of the nodes of a tree; what is below a script element is its
\* content, not nodes of the document
RECURSIVE PathsOf(_, _)
PathsOf(n, at) ==
    {at} \cup (IF IsScript(n) THEN {}
               ELSE UNION {PathsOf(n.Kids[i], Append(at, i)) : i \in 1..Len(n.Kids)})

\* the src values of the script elements of a tree
DocSrcValues(doc) ==
    UNION {Range(SrcValues(NodeAt(doc, at))) :
              at \in {p \in PathsOf(doc, <<>>) : IsScript(NodeAt(doc, p))}}

\* the bodies of the script elements without src of a tree
DocInlineBodies(doc) ==
    {NodeAt(doc, at).Kids[1].Data :
        at \in {p \in PathsOf(doc, <<>>) :
                   /\ IsScript(NodeAt(doc, p))
                   /\ SrcValues(NodeAt(doc, p)) = <<>>
                   /\ NodeAt(doc, p).Kids # <<>>}}

\* the values of the event handler attributes of the elements of a tree
DocHandlerValues(doc) ==
    UNION {Range(OnValues(NodeAt(doc, at))) : at \in PathsOf(doc, <<>>)}

IsEmptyScriptSrc(ss) ==
    ~ss.Self /\ ss.Hashes = <<>> /\ ss.Hosts = <<>> /\ ss.Others = <<>>

\* C13: after a walk of one tree into an empty ScriptSrc that returns no
\* error, Self is set exactly when a script element has a src without scheme,
\* Hosts holds one entry for each https origin among the src values and no
\* other, and Hashes holds one entry for each inline script body and, with
\* event handlers included, for each event handler attribute value, and no
\* other.
C13_ExactContents ==
    (Returned("AddFromHTML") /\ last.err = Nil /\ IsEmptyScriptSrc(last.pre)) =>
        /\ scriptSrc.Self <=> \E v \in DocSrcValues(last.n) : NoScheme(v)
        /\ Range(scriptSrc.Hosts) =
              {S_httpsSlashes \o Parse(v).Host :
                  v \in {u \in DocSrcValues(last.n) :
                            Parse(u).err = Nil /\ Parse(u).Scheme = S_https}}
        /\ NoDuplicates(scriptSrc.Hosts)
        /\ Range(scriptSrc.Hashes) =
              {InlineHash(last.pre.DefaultHashAlgorithm, t) :
                  t \in DocInlineBodies(last.n)
                        \cup (IF last.includeEventHandlers
                              THEN DocHandlerValues(last.n) ELSE {})}
        /\ NoDuplicates(scriptSrc.Hashes)

S_cloudflare ==
    <<"h","t","t","p","s",":","/","/","c","h","a","l","l","e","n","g","e","s",
    ".","c","l","o","u","d","f","l","a","r","e",".","c","o","m">>

Quoted(hash) == <<"'">> \o hash \o <<"'">>

\* the walk of the example with event handlers into an empty ScriptSrc has returned
ExampleWalked ==
    /\ Returned("AddFromHTML")
    /\ last.n = ExampleHTML
    /\ last.includeEventHandlers
    /\ IsEmptyScriptSrc(last.pre)

\* the quoted hashes of the example in the order the walk meets them
ExampleDigests ==
    <<Quoted(InlineHash(last.pre.DefaultHashAlgorithm, C_a)),
      Quoted(InlineHash(last.pre.DefaultHashAlgorithm, C_c)),
      Quoted(InlineHash(last.pre.DefaultHashAlgorithm, C_b))>>

\* C14 as stated: the walk, with event handlers, into an empty ScriptSrc of the
\* one document whose only script src is
\* https://challenges.cloudflare.com/turnstile/v0/api.js, with inline scripts
\* and one onclick attribute beside it, gives a String whose first token is
\* 'self', then the quoted hashes in the order met, then
\* https://challenges.cloudflare.com.
C14_ExampleWithSelf ==
    ExampleWalked =>
        /\ last.err = Nil
        /\ Tokenize(String(scriptSrc)) = <<S_self>> \o ExampleDigests \o <<S_cloudflare>>

\* C14 as amended: that walk gives a String without a 'self' token: the quoted
\* hashes in the order met, then https://challenges.cloudflare.com.
C14_ExampleWithoutSelf ==
    ExampleWalked =>
        /\ last.err = Nil
        /\ String(scriptSrc) = Join(ExampleDigests \o <<S_cloudflare>>, " ")
        /\ Tokenize(String(scriptSrc)) = ExampleDigests \o <<S_cloudflare>>

\* the example has been walked and has left three hashes and one host
C14_Witness ==
    /\ ExampleWalked
    /\ Len(scriptSrc.Hashes) = 3
    /\ scriptSrc.Hosts = <<S_cloudflare>>
    /\ ~scriptSrc.Self

\* the steps give what the calls give as a whole
StepsAgree ==
    /\ Returned("AddFromHTML") =>
          /\ last.walk = AddFromHTML(last.pre, last.n, last.includeEventHandlers)
          /\ scriptSrc = last.walk.ss
    /\ Returned("ScriptSrcFromHTMLFiles") =>
          /\ last.ret = ScriptSrcFromHTMLFiles(last.paths, last.includeEventHandlers).ret
          /\ last.err = ScriptSrcFromHTMLFiles(last.paths, last.includeEventHandlers).err
          /\ last.errors = ScriptSrcFromHTMLFiles(last.paths, last.includeEventHandlers).errors
          /\ last.shared = ScriptSrcFromHTMLFiles(last.paths, last.includeEventHandlers).shared

\* C15: a walk that has begun on a tree returns, with either value of
\* includeEventHandlers, and has entered no node twice; a
\* ScriptSrcFromHTMLFiles that has begun on a list of files returns.
C15_Terminates ==
    /\ [](NoDuplicates(last.walk.visited))
    /\ (pc = "walking") ~> Returned("AddFromHTML")
    /\ (pc \in {"files", "fileWalking"}) ~> Returned("ScriptSrcFromHTMLFiles")

\* ScriptSrcFromHTMLFiles has returned from two files, the second walked node
\* by node to its end
C15_Witness ==
    /\ Returned("ScriptSrcFromHTMLFiles")
    /\ Len(last.paths) = 2
    /\ last.i = 3
    /\ Len(last.walk.visited) >= 8
    /\ last.errors # <<>>

\* the places of a tree in document order: a node, then its children from
\* left to right, each with its descendants
RECURSIVE PreOrder(_, _)
PreOrder(n, at) ==
    <<at>> \o Flatten([i \in 1..Len(n.Kids) |-> PreOrder(n.Kids[i], Append(at, i))])

\* the error AddFromHTML returns from node n itself: only a script element
\* returns one of its own, any other node hands on that of a child
Raises(n) ==
    IF IsScript(n) THEN WalkNode(Walk(ScriptSrc(Sha512, <<>>)), n, <<>>, FALSE).err ELSE Nil

\* the places of the tree whose node raises an error when the walk is there:
\* no node above them is a script element
FailingPlaces(doc, order) ==
    {k \in 1..Len(order) :
        /\ order[k] \in PathsOf(doc, <<>>)
        /\ Raises(NodeAt(doc, order[k])) # Nil}

\* the texts node n gives to AddInline and the references it gives to AddSrc
OwnTexts(n, includeEventHandlers) ==
    IF IsScript(n)
    THEN IF SrcValues(n) = <<>> /\ ValidInline(n) THEN {n.Kids[1].Data} ELSE {}
    ELSE IF includeEventHandlers THEN Range(OnValues(n)) ELSE {}

OwnSrcs(n) == IF IsScript(n) /\ SrcValues(n) # <<>> THEN {SrcValues(n)[1]} ELSE {}

\* what the first k places of the tree can add to a policy
HashesUpTo(doc, order, k, alg, includeEventHandlers) ==
    {InlineHash(alg, c) :
        c \in UNION {OwnTexts(NodeAt(doc, order[j]), includeEventHandlers) : j \in 1..k}}

HostsUpTo(doc, order, k, alg) ==
    UNION {Range(AddSrc(ScriptSrc(alg, <<>>), src).ss.Hosts) :
              src \in UNION {OwnSrcs(NodeAt(doc, order[j])) : j \in 1..k}}

SelfUpTo(doc, order, k, alg) ==
    \E j \in 1..k : \E src \in OwnSrcs(NodeAt(doc, order[j])) :
        AddSrc(ScriptSrc(alg, <<>>), src).ss.Self

FirstOf(places) == CHOOSE k \in places : \A j \in places : k <= j

\* the walk has stopped at place k of the tree
StoppedAt(doc, order, k) ==
    /\ last.err = Raises(NodeAt(doc, order[k]))
    /\ last.walk.errAt = order[k]
    /\ \A j \in (k + 1)..Len(order) :
          /\ order[j] \notin Range(last.walk.visited)
          /\ \A e \in Range(last.walk.inlined) : e.at # order[j]
          /\ \A e \in Range(last.walk.srcs) : e.at # order[j]
    /\ Range(scriptSrc.Hashes) \subseteq
          Range(last.pre.Hashes)
              \cup HashesUpTo(doc, order, k, last.pre.DefaultHashAlgorithm,
                              last.includeEventHandlers)
    /\ Range(scriptSrc.Hosts) \subseteq
          Range(last.pre.Hosts) \cup HostsUpTo(doc, order, k, last.pre.DefaultHashAlgorithm)
    /\ scriptSrc.Self => (last.pre.Self \/ SelfUpTo(doc, order, k, last.pre.DefaultHashAlgorithm))

BeginsWithOn(key) == Len(key) >= 2 /\ key[1] = "o" /\ key[2] = "n"

\* the values of the attributes of n whose name begins with on, in attribute order
HandlerValues(n) ==
    LET at == SelectSeq(n.Attr, LAMBDA a : BeginsWithOn(a.Key))
    IN  [i \in 1..Len(at) |-> at[i].Val]

\* the texts the walk gave to AddInline for the node at path at, in call order
TextsAt(w, at) ==
    LET calls == InlinedAt(w, at) IN [i \in 1..Len(calls) |-> calls[i].content]

\* the text of a script element without src that has exactly one text child
ScriptTexts(n) ==
    IF SrcValues(n) = <<>> /\ ValidInline(n) THEN <<n.Kids[1].Data>> ELSE <<>>

WalkedUpTo(doc, order, k) == {order[j] : j \in 1..k} \cap PathsOf(doc, <<>>)

\* what the nodes at places add to an empty policy with algorithm alg
HashesAt(doc, places, alg, includeEventHandlers) ==
    {InlineHash(alg, c) :
        c \in UNION {OwnTexts(NodeAt(doc, at), includeEventHandlers) : at \in places}}

HostsAt(doc, places, alg) ==
    UNION {Range(AddSrc(ScriptSrc(alg, <<>>), src).ss.Hosts) :
              src \in UNION {OwnSrcs(NodeAt(doc, at)) : at \in places}}

SelfAt(doc, places, alg) ==
    \E at \in places : \E src \in OwnSrcs(NodeAt(doc, at)) :
        AddSrc(ScriptSrc(alg, <<>>), src).ss.Self

IsPrefix(s, t) == Len(s) <= Len(t) /\ SubSeq(t, 1, Len(s)) = s

\* the policy holds what it held before the walk and all that the places add
KeepsAll(doc, places) ==
    /\ IsPrefix(last.pre.Hashes, scriptSrc.Hashes)
    /\ IsPrefix(last.pre.Hosts, scriptSrc.Hosts)
    /\ Range(scriptSrc.Hashes) =
          Range(last.pre.Hashes)
              \cup HashesAt(doc, places, last.pre.DefaultHashAlgorithm,
                            last.includeEventHandlers)
    /\ Range(scriptSrc.Hosts) =
          Range(last.pre.Hosts) \cup HostsAt(doc, places, last.pre.DefaultHashAlgorithm)
    /\ scriptSrc.Self <=>
          (last.pre.Self \/ SelfAt(doc, places, last.pre.DefaultHashAlgorithm))

\* of the src attributes of the script element at path at, AddSrc was called
\* with the first and with no other
FirstSrcOnly(doc, at) ==
    Len(SrcValues(NodeAt(doc, at))) > 1 =>
        /\ last.err = DuplicateAttribute(SrcValues(NodeAt(doc, at))[2])
        /\ SelectSeq(last.walk.srcs, LAMBDA e : e.at = at)
              = <<[at |-> at, src |-> SrcValues(NodeAt(doc, at))[1],
                   err |-> AddSrc(last.pre, SrcValues(NodeAt(doc, at))[1]).err]>>

\* the walk has failed at place k and nothing was taken back
NothingUndone(doc, order, k) ==
    /\ last.err # Nil
    /\ KeepsAll(doc, WalkedUpTo(doc, order, k))
    /\ FirstSrcOnly(doc, order[k])

\* C18: when a walk returns an error, the policy still holds everything it
\* held before the walk and everything the nodes up to the failing one have
\* added; for a script element with two src attributes, the first has been
\* given to AddSrc and has taken effect (Self set or the host appended), the
\* second has not.
C18_NoRollback ==
    Returned("AddFromHTML") =>
        /\ last.err # Nil <=> FailingPlaces(last.n, PreOrder(last.n, <<>>)) # {}
        /\ FailingPlaces(last.n, PreOrder(last.n, <<>>)) # {} =>
              NothingUndone(last.n, PreOrder(last.n, <<>>),
                            FirstOf(FailingPlaces(last.n, PreOrder(last.n, <<>>))))

\* after the text of a first script was hashed, the walk has failed on a
\* script whose first src is an https reference and whose second src has no
\* scheme: the hash and the host are held and Self is not set
C18_Witness ==
    /\ Returned("AddFromHTML")
    /\ Len(last.n.Kids) = 2
    /\ last.walk.errAt = <<2>>
    /\ last.err = DuplicateAttribute(R_rel)
    /\ SrcValues(last.n.Kids[2]) = <<R_https, R_rel>>
    /\ last.pre.Hashes = <<>>
    /\ last.pre.Hosts = <<>>
    /\ Len(scriptSrc.Hashes) = 1
    /\ Len(scriptSrc.Hosts) = 1
    /\ ~scriptSrc.Self

\* the same with the src attributes the other way round: Self is set and no
\* host is held
C18_WitnessSelf ==
    /\ Returned("AddFromHTML")
    /\ last.walk.errAt = <<2>>
    /\ SrcValues(last.n.Kids[2]) = <<R_rel, R_https>>
    /\ ~last.pre.Self
    /\ last.pre.Hosts = <<>>
    /\ scriptSrc.Self
    /\ scriptSrc.Hosts = <<>>
    /\ scriptSrc.Hashes # last.pre.Hashes

\* new holds all that old held: the hashes and the hosts of old at the front,
\* in their order, Self still set when it was, the rest as it was
Grows(old, new) ==
    /\ IsPrefix(old.Hashes, new.Hashes)
    /\ IsPrefix(old.Hosts, new.Hosts)
    /\ old.Self => new.Self
    /\ new.Others = old.Others
    /\ new.DefaultHashAlgorithm = old.DefaultHashAlgorithm

\* C19: every call of AddInline, AddSrc and AddFromHTML, failed or not, leaves
\* the hashes and the hosts held before as prefixes of the new sequences,
\* leaves Self set when it was set, and leaves Others and
\* DefaultHashAlgorithm as they were.
C19_MonotonicGrowth == [][Grows(scriptSrc, scriptSrc')]_vars

\* a walk has added a hash and a host to a policy that held Others, a hash
\* and a host and had Self set
C19_Witness ==
    /\ Returned("AddFromHTML")
    /\ last.pre.Others # <<>>
    /\ last.pre.Self
    /\ last.pre.Hashes # <<>>
    /\ last.pre.Hosts # <<>>
    /\ Len(scriptSrc.Hashes) > Len(last.pre.Hashes)
    /\ Len(scriptSrc.Hosts) > Len(last.pre.Hosts)

\* the walk of each tree into an empty policy, computed once
WalkedAlone ==
    [alg \in HashAlgorithm, n \in SmallDocs, ieh \in BOOLEAN |->
        AddFromHTML(ScriptSrc(alg, <<>>), n, ieh)]

\* the same Self, the same hashes and the same hosts, in whatever order
SameContent(s, t) ==
    /\ s.Self = t.Self
    /\ Range(s.Hashes) = Range(t.Hashes)
    /\ Range(s.Hosts) = Range(t.Hosts)

\* tree a, walked first with mode iehA into an empty policy, has given the
\* policy that the last walk began with
WalkedFirst(a, iehA) ==
    /\ WalkedAlone[last.pre.DefaultHashAlgorithm, a, iehA].err = Nil
    /\ WalkedAlone[last.pre.DefaultHashAlgorithm, a, iehA].ss = last.pre

\* the last tree walked first and then tree a, each with the mode it had
OtherOrder(a, iehA) ==
    AddFromHTML(WalkedAlone[last.pre.DefaultHashAlgorithm, last.n,
                            last.includeEventHandlers].ss,
                a, iehA)

\* a tree without hashes and hosts that sets Self was walked first, and the
\* last tree has added a hash
C20_WitnessSelf ==
    /\ Returned("AddFromHTML")
    /\ last.err = Nil
    /\ last.pre.Self
    /\ last.pre.Hashes = <<>>
    /\ scriptSrc.Hashes # <<>>
    /\ ~WalkedAlone[last.pre.DefaultHashAlgorithm, last.n, last.includeEventHandlers].ss.Self
    /\ \E a \in SmallDocs, iehA \in BOOLEAN : WalkedFirst(a, iehA)

\* C20: when tree A and then tree B have been walked without error into an
\* empty policy, walking B and then A into an empty policy with the same
\* algorithm succeeds as well and gives the same Self, the same set of
\* hashes and the same set of hosts.
C20_OrderIndependent ==
    (Returned("AddFromHTML") /\ last.err = Nil) =>
        \A a \in SmallDocs, iehA \in BOOLEAN :
            WalkedFirst(a, iehA) =>
                /\ OtherOrder(a, iehA).err = Nil
                /\ SameContent(scriptSrc, OtherOrder(a, iehA).ss)

\* two trees walked one after the other where the other order gives the
\* hashes in another order, with a host held
C20_Witness ==
    /\ Returned("AddFromHTML")
    /\ last.err = Nil
    /\ scriptSrc.Hosts # <<>>
    /\ \E a \in SmallDocs, iehA \in BOOLEAN :
          /\ WalkedFirst(a, iehA)
          /\ OtherOrder(a, iehA).ss.Hashes # scriptSrc.Hashes

\* two trees where the other order gives the hosts in another order
C20_WitnessHosts ==
    /\ Returned("AddFromHTML")
    /\ last.err = Nil
    /\ \E a \in SmallDocs, iehA \in BOOLEAN :
          /\ WalkedFirst(a, iehA)
          /\ OtherOrder(a, iehA).ss.Hosts # scriptSrc.Hosts

====
